---- MODULE Spec2Model ----
(***************************************************************************)
(* Model of the downtime sidecar (src/main.ts).                            *)
(*                                                                         *)
(* The program is one single-threaded Node.js process.  Its state is the   *)
(* module-level flag isDown, the setTimeout callbacks that are still       *)
(* outstanding, and the long-polling state of the grammY Bot object that   *)
(* acts as the failover handler.  Every action below is one run-to-        *)
(* completion step of the event loop: the code between two suspension      *)
(* points (await on network I/O, timer expiry).                            *)
(*                                                                         *)
(* Time is counted in ticks; DOWNTIME_DELAY ticks stand for the configured *)
(* delay of config.DOWNTIME_DELAY seconds.  A tick is an interval of real  *)
(* time: the events of one tick happen in the order of the interleaving,   *)
(* and a timer fires in the tick in which it falls due.                    *)
(*                                                                         *)
(* The Bot object is the grammY library's: bot.start sets its running flag *)
(* synchronously and returns early when it is already set; otherwise it    *)
(* performs its setup over the network, awaits the onStart callback and    *)
(* then polls for updates.  bot.stop clears the flag, aborts the polling   *)
(* loop and a pending setup, and awaits one last network call; when the    *)
(* flag is already clear it returns without I/O.                           *)
(*                                                                         *)
(* Beside the downtime state the model follows the control endpoint's      *)
(* answers to every kind of request body, the configuration read through   *)
(* src/env.ts, the membership watcher's writes to the user collection, and *)
(* the faults of the transport and of the process: a notice or an alert    *)
(* that cannot be sent, and an exception reaching the process level.       *)
(***************************************************************************)
EXTENDS Integers, Sequences, FiniteSets, TLC

\* ---------------------------------------------------------------- bounds
\* Last tick of the clock.
MaxTime == 4
\* Most setTimeout callbacks outstanding at once.
MaxTimers == 2
\* Most down=false requests suspended in `await bot.stop()` at once.
MaxStops == 1
\* Most onStart callbacks suspended in `await bot.api.sendMessage` at once.
MaxPending == 1

\* Number of user documents the membership watcher is followed on.
NumUsers == 2

\* config.DOWNTIME_DELAY, in ticks.
DOWNTIME_DELAY == 2

VARIABLES
    now,             \* the clock, in ticks
    forced,          \* config.FORCE_DOWNTIME
    isDown,          \* main.ts:73
    timers,          \* outstanding setTimeout callbacks, in firing order
    pollingRunning,  \* the Bot's "running" flag: set by bot.start, cleared by bot.stop
    setup,           \* a bot.start call that is still in its setup phase
    onStartPending,  \* onStart callbacks awaiting bot.api.sendMessage
    polling,         \* the Bot is fetching and handling updates
    stopping,        \* down=false requests suspended in `await bot.stop()`
    alerts,          \* on-call alerts sent so far
    msg,             \* the last text message handled and what it got
    \* ---- history of the run, read by the properties only
    upBegun,         \* some down=false report has been received
    upDone,          \* a down=false report was answered and no down=true came since
    downAt,          \* when the report that moved isDown from false to true came
    starts,          \* times a delayed check took the handler from stopped to running
    sinceStart,      \* alerts sent since the last such transition
    episode,         \* progress of a "down then up inside the delay" scenario
    actedSince,      \* handler started, alert sent or notice sent since `downAt`
    lastCheck,       \* what the last delayed check did
    \* ---- configuration, HTTP endpoint, process
    cfg,             \* the environment the process was started in
    strict,          \* the env object throws on a variable outside its schema
    serving,         \* the process is alive and serves requests and events
    resp,            \* the last response of the control endpoint
    crash,           \* progress of "exception, then a new report activates"
    \* ---- membership watcher
    db,              \* the user documents of the production collection
    wlast            \* per user, the last membership event handled and what it did

vars == << now, forced, isDown, timers, pollingRunning, setup, onStartPending,
           polling, stopping, alerts, msg, upBegun, upDone, downAt, starts,
           sinceStart, episode, actedSince, lastCheck,
           cfg, strict, serving, resp, crash, db, wlast >>

\* What the downtime actions never change.
envVars == << cfg, strict, serving, db, wlast >>

botVars == << pollingRunning, setup, onStartPending, polling >>

\* ------------------------------------------------------------- helpers
\* One outstanding setTimeout callback (main.ts:211-222).  `due` is when it
\* fires; `first` tells that the report which scheduled it found isDown
\* false; `upSeen` that a down=false report has written isDown = false
\* since it was scheduled.
Timer(due, first) ==
    [due |-> due, first |-> first, upSeen |-> FALSE]

\* The timers after a down=false report wrote isDown = false: the code holds
\* no timer handle and calls no clearTimeout, so every callback stays queued.
AfterReportUp(ts) ==
    [i \in 1..Len(ts) |-> [ts[i] EXCEPT !.upSeen = TRUE]]

\* The tri-state of the specification, read off the program's state: UP is
\* isDown = false; PENDING_DOWN is isDown = true while the delayed check of
\* the report that left UP has not fired; DOWN is isDown = true otherwise.
CheckPending ==
    \E i \in 1..Len(timers) : timers[i].first /\ ~timers[i].upSeen

Status ==
    IF ~isDown THEN "UP"
    ELSE IF CheckPending THEN "PENDING_DOWN" ELSE "DOWN"

\* Forced downtime is in effect: forced at startup, no down=false received.
ForcedInEffect == forced /\ ~upBegun

\* The bodies POSTed to /downtime, by what request.req.json() makes of them
\* (main.ts:196): not JSON at all, the JSON value null, or a value whose
\* `down` is true, false, a non-empty string, or absent.
DownValues == {"true", "false", "string", "missing"}

Bodies == DownValues \cup {"null", "malformed"}

\* A response of the control endpoint to a body: {ok:true}, {ok:false}, or
\* the error JSON of server.onError.
Answer(body, ans) == [body |-> body, ans |-> ans]

\* main.ts:199: typeof json.down === 'boolean'.
IsBoolean(d) == d \in {"true", "false"}

\* main.ts:201: if (json.down), by JavaScript truthiness.
Truthy(d) == d \in {"true", "string"}

\* What sendDowntimeNotice did with a text message (main.ts:126-149): what
\* the sender got, the ctx.reply calls made, the next() calls made, and
\* whether an error left the middleware.  `seq` tells two messages apart.
Handled(seq, out, sends, nexts) ==
    [seq |-> seq, out |-> out, sends |-> sends, nexts |-> nexts,
     raised |-> FALSE]

\* A user document of config.DB_COLLECTION (main.ts:92, 99-105): whether it
\* exists, its userSettings.hasBlocked, and the rest of the document.
Doc(hb, other) == [exists |-> TRUE, hasBlocked |-> hb, other |-> other]

NoDoc == [exists |-> FALSE, hasBlocked |-> FALSE, other |-> "none"]

\* The collections the service can find at startup: per user no document,
\* or one with either value of hasBlocked.
Collections ==
    [1..NumUsers -> {NoDoc, Doc(FALSE, "profile"), Doc(TRUE, "profile")}]

\* The new_chat_member.status values of my_chat_member updates.
Statuses == {"kicked", "member", "left"}

\* main.ts:90: the value written is `status === 'kicked'`.
NewStatus(st) == st = "kicked"

ReplaceOne(d, u, hb) ==
    IF d[u].exists THEN [d EXCEPT ![u] = Doc(hb, "none")] ELSE d

\* collection.updateOne({telegramId}, {$set: {"userSettings.hasBlocked": v}})
\* (main.ts:99-105): sets the one field of the matching document; without
\* `upsert` a filter that matches nothing writes nothing.
UpdateOne(d, u, hb) ==
    IF d[u].exists THEN [d EXCEPT ![u].hasBlocked = hb] ELSE d

CatchRethrows == FALSE

\* main.ts:110-114: the catch block logs the error and returns.
CatchSwallows == TRUE

\* No membership event handled yet for a user.
NoEvent == [status |-> "none", result |-> "none", attempts |-> 0,
            raised |-> FALSE]

\* ---------------------------------------------------------------- Init
\* main.ts:73 and main.ts:242: isDown starts as FORCE_DOWNTIME; when forced,
\* bot.start() is called at load time, without an onStart callback.
ForcedStartWithOnStart == "alert"

\* main.ts:242: the forced start passes no onStart callback.
ForcedStart == "plain"

Loaded ==
    /\ now = 0
    /\ forced \in BOOLEAN
    /\ isDown = forced
    /\ timers = << >>
    /\ pollingRunning = forced
    /\ setup = IF forced THEN ForcedStart ELSE "none"
    /\ onStartPending = 0
    /\ polling = FALSE
    /\ stopping = 0
    /\ alerts = 0
    /\ msg = Handled(0, "none", 0, 0)
    /\ upBegun = FALSE
    /\ upDone = FALSE
    /\ downAt = 0
    /\ starts = 0
    /\ sinceStart = 0
    /\ episode = "none"
    /\ actedSince = FALSE
    /\ lastCheck = "none"
    /\ resp = Answer("none", "none")
    /\ crash = "no"
    /\ wlast = [u \in 1..NumUsers |-> NoEvent]

\* The service started with every variable set, the delay readable, and no
\* user document followed.
Init ==
    /\ Loaded
    /\ cfg = "complete"
    /\ strict = FALSE
    /\ serving = TRUE
    /\ db = [u \in 1..NumUsers |-> NoDoc]

\* The environments the process can be started in: every variable set and
\* valid; a variable of the schema of src/env.ts missing or invalid, on
\* which cleanEnv ends the process; only DOWNTIME_DELAY missing or not a
\* number, which cleanEnv does not look at.
Environments == {"complete", "validatedMissing", "delayMissing"}

\* Startup in any environment, with either kind of env object.
InitCfg ==
    /\ Loaded
    /\ cfg \in Environments
    /\ strict \in BOOLEAN
    /\ serving = (cfg # "validatedMissing")
    /\ db = [u \in 1..NumUsers |-> NoDoc]

\* ------------------------------------------------------- the Bot object
StartNeverReturnsEarly == FALSE

\* bot.start returns at once when long polling is already running, without
\* calling onStart.
AlreadyRunning == pollingRunning

\* bot.start({ onStart }) (main.ts:215).  The call sets the running flag
\* synchronously; setup (network calls), then onStart, then the polling
\* loop follow in later steps.
BotStart ==
    IF AlreadyRunning
    THEN UNCHANGED botVars
    ELSE /\ pollingRunning' = TRUE
         /\ setup' = "alert"
         /\ UNCHANGED << onStartPending, polling >>

\* The synchronous part of bot.stop() when the Bot is running (main.ts:226):
\* the flag is cleared, the polling loop and a start still in setup are
\* aborted.  An onStart that already awaits sendMessage is not.
BotStopRunning ==
    /\ pollingRunning' = FALSE
    /\ polling' = FALSE
    /\ setup' = "none"
    /\ UNCHANGED onStartPending

\* ------------------------------------------------------------ actions
\* main.ts:213: the delayed check starts the handler iff isDown is still true.
StillDown == isDown

\* main.ts:132: the notice is sent iff isDown is true when the message is handled.
NoticeGate == isDown

\* A settled UP state: isDown false and nothing of an earlier downtime still
\* in flight in the Bot or in a down=false request.
SettledUp ==
    /\ ~isDown
    /\ ~pollingRunning
    /\ stopping = 0
    /\ onStartPending = 0

\* What reading config.DOWNTIME_DELAY (main.ts:207, 222) gives.  The schema
\* of src/env.ts (lines 22-32) does not list the variable, so cleanEnv
\* neither validates nor converts it.  A strict env object throws on the
\* access; a non-strict one passes the raw environment through, which
\* `* 1000` turns into a number when the variable is set and into NaN when
\* it is not.
DelayRead ==
    IF strict THEN "throws"
    ELSE IF cfg = "delayMissing" THEN "nan" ELSE "number"

GenericErrorJson == "error"

FrameworkDefaultError == "text500"

\* server.onError (main.ts:248-250) answers every exception of a request
\* handler with the JSON {message, err}.
OnError == GenericErrorJson

\* processIncomingUpdate with {down: true} (main.ts:201-223, 233), when the
\* delay reads as a number.
ReportDown ==
    /\ serving
    /\ \E d \in DownValues :
          IsBoolean(d) /\ Truthy(d) /\ resp' = Answer(d, "ok")
    /\ Len(timers) < MaxTimers
    /\ now + DOWNTIME_DELAY <= MaxTime
    /\ DelayRead = "number"
    /\ isDown' = TRUE
    /\ timers' = Append(timers, Timer(now + DOWNTIME_DELAY, ~isDown))
    /\ upDone' = FALSE
    /\ downAt' = IF isDown THEN downAt ELSE now
    /\ actedSince' = IF isDown THEN actedSince ELSE FALSE
    /\ episode' = IF SettledUp THEN "down" ELSE "none"
    /\ UNCHANGED << now, forced, botVars, stopping, alerts, msg, upBegun,
                    starts, sinceStart, lastCheck >>
    /\ crash' = IF crash = "stopped" /\ Len(timers) = 0 THEN "reported" ELSE crash
    /\ UNCHANGED envVars

\* processIncomingUpdate with {down: true} when reading the delay throws
\* (main.ts:201-207): isDown is already written when the log line reads
\* config.DOWNTIME_DELAY; no timer is set and server.onError answers.
ReportDownThrows ==
    /\ serving
    /\ \E d \in DownValues :
          IsBoolean(d) /\ Truthy(d) /\ resp' = Answer(d, OnError)
    /\ DelayRead = "throws"
    /\ isDown' = TRUE
    /\ upDone' = FALSE
    /\ downAt' = IF isDown THEN downAt ELSE now
    /\ actedSince' = IF isDown THEN actedSince ELSE FALSE
    /\ episode' = IF SettledUp THEN "down" ELSE "none"
    /\ UNCHANGED << now, forced, timers, botVars, stopping, alerts, msg,
                    upBegun, starts, sinceStart, lastCheck, crash >>
    /\ UNCHANGED envVars

\* processIncomingUpdate with {down: true} when the delay reads as NaN
\* (main.ts:201-223, 233): setTimeout takes NaN as no delay, so the check
\* is due at once.  No time has to pass between such reports, so their
\* number is capped through the activations they have led to.
ReportDownNaN ==
    /\ serving
    /\ \E d \in DownValues :
          IsBoolean(d) /\ Truthy(d) /\ resp' = Answer(d, "ok")
    /\ Len(timers) < MaxTimers
    /\ starts < MaxTimers
    /\ DelayRead = "nan"
    /\ isDown' = TRUE
    /\ timers' = Append(timers, Timer(now, ~isDown))
    /\ upDone' = FALSE
    /\ downAt' = IF isDown THEN downAt ELSE now
    /\ actedSince' = IF isDown THEN actedSince ELSE FALSE
    /\ episode' = IF SettledUp THEN "down" ELSE "none"
    /\ UNCHANGED << now, forced, botVars, stopping, alerts, msg, upBegun,
                    starts, sinceStart, lastCheck, crash >>
    /\ UNCHANGED envVars

\* The episode after a down=false report is received.
EpisodeOnUp(done) ==
    IF episode = "down" /\ now < downAt + DOWNTIME_DELAY
    THEN (IF done THEN "recovered" ELSE "recovering")
    ELSE "none"

\* processIncomingUpdate with {down: false} while the Bot is not running
\* (main.ts:225-233): bot.stop() has nothing to do and resolves without
\* network I/O, so the await resumes in the same event-loop turn and
\* isDown = false is written before any timer or request can run.
ReportUpIdle ==
    /\ serving
    /\ \E d \in DownValues : IsBoolean(d) /\ ~Truthy(d)
    /\ ~pollingRunning
    /\ isDown' = FALSE
    /\ timers' = AfterReportUp(timers)
    /\ upBegun' = TRUE
    /\ upDone' = TRUE
    /\ episode' = EpisodeOnUp(TRUE)
    /\ UNCHANGED << now, forced, botVars, stopping, alerts, msg, downAt,
                    starts, sinceStart, actedSince, lastCheck >>
    /\ resp' = Answer("false", "ok")
    /\ UNCHANGED crash
    /\ UNCHANGED envVars

\* processIncomingUpdate with {down: false} while the Bot is running
\* (main.ts:225-230): bot.stop() clears the running flag and then waits for
\* the network; the request is suspended with isDown still unchanged.
ReportUpBegin ==
    /\ serving
    /\ \E d \in DownValues : IsBoolean(d) /\ ~Truthy(d)
    /\ pollingRunning
    /\ stopping < MaxStops
    /\ BotStopRunning
    /\ stopping' = stopping + 1
    /\ upBegun' = TRUE
    /\ episode' = EpisodeOnUp(FALSE)
    /\ UNCHANGED << now, forced, isDown, timers, alerts, msg, upDone, downAt,
                    starts, sinceStart, actedSince, lastCheck >>
    /\ UNCHANGED << resp, crash >>
    /\ UNCHANGED envVars

\* The continuation of a suspended down=false request (main.ts:231-233).
ReportUpEnd ==
    /\ serving
    /\ stopping > 0
    /\ stopping' = stopping - 1
    /\ isDown' = FALSE
    /\ timers' = AfterReportUp(timers)
    /\ upDone' = TRUE
    /\ episode' = IF episode = "recovering" THEN "recovered" ELSE episode
    /\ UNCHANGED << now, forced, botVars, alerts, msg, upBegun, downAt,
                    starts, sinceStart, actedSince, lastCheck >>
    /\ resp' = Answer("false", "ok")
    /\ UNCHANGED crash
    /\ UNCHANGED envVars

\* The setTimeout callback (main.ts:211-222).  Timers of one delay fire in
\* the order they were set.
TimerFire ==
    /\ serving
    /\ Len(timers) > 0
    /\ Head(timers).due <= now
    /\ timers' = Tail(timers)
    /\ IF StillDown THEN BotStart ELSE UNCHANGED botVars
    /\ LET activates == pollingRunning' /\ ~pollingRunning
       IN  /\ starts' = IF activates THEN starts + 1 ELSE starts
           /\ sinceStart' = IF activates THEN 0 ELSE sinceStart
           /\ actedSince' = (actedSince \/ activates)
           /\ lastCheck' = IF activates THEN "started"
                           ELSE IF StillDown THEN "noop" ELSE "skipped"
    /\ UNCHANGED << now, forced, isDown, stopping, alerts, msg, upBegun,
                    upDone, downAt, episode >>
    /\ crash' = IF crash = "reported" /\ pollingRunning' /\ ~pollingRunning
                THEN "reactivated" ELSE crash
    /\ UNCHANGED resp
    /\ UNCHANGED envVars

\* Setup of a bot.start call completes.  With an onStart callback the
\* callback runs and suspends in `await bot.api.sendMessage` (main.ts:173);
\* without one (main.ts:242) the polling loop starts.
SetupDone ==
    /\ serving
    /\ setup # "none"
    /\ setup' = "none"
    /\ IF setup = "alert"
       THEN /\ onStartPending < MaxPending
            /\ onStartPending' = onStartPending + 1
            /\ UNCHANGED polling
       ELSE /\ polling' = TRUE
            /\ UNCHANGED onStartPending
    /\ UNCHANGED << now, forced, isDown, timers, pollingRunning, stopping,
                    alerts, msg, upBegun, upDone, downAt, starts, sinceStart,
                    episode, actedSince, lastCheck >>
    /\ UNCHANGED << resp, crash >>
    /\ UNCHANGED envVars

\* sendMessage of onStart completes (main.ts:173-179): the alert is sent,
\* and the start call goes on to the polling loop unless the Bot was
\* stopped meanwhile.
AlertSent ==
    /\ serving
    /\ onStartPending > 0
    /\ onStartPending' = onStartPending - 1
    /\ alerts' = alerts + 1
    /\ sinceStart' = sinceStart + 1
    /\ polling' = (polling \/ pollingRunning)
    /\ actedSince' = TRUE
    /\ UNCHANGED << now, forced, isDown, timers, pollingRunning, setup,
                    stopping, msg, upBegun, upDone, downAt, starts, episode,
                    lastCheck >>
    /\ UNCHANGED << resp, crash >>
    /\ UNCHANGED envVars

\* sendMessage of onStart rejects (main.ts:173-176): onStart rejects, and
\* with it the bot.start call that awaits it, before the polling loop is
\* entered; bot.start clears the running flag on its way out.  Nothing
\* awaits the promise of bot.start (main.ts:215), so the rejection reaches
\* the uncaughtException handler, whose bot.stop() (main.ts:265) aborts
\* whatever start is under way.
AlertFails ==
    /\ serving
    /\ onStartPending > 0
    /\ onStartPending' = onStartPending - 1
    /\ pollingRunning' = FALSE
    /\ polling' = FALSE
    /\ setup' = "none"
    /\ UNCHANGED << now, forced, isDown, timers, stopping, alerts, msg,
                    upBegun, upDone, downAt, starts, sinceStart, episode,
                    actedSince, lastCheck >>
    /\ UNCHANGED << resp, crash >>
    /\ UNCHANGED envVars

HandlerIgnores == UNCHANGED botVars

\* main.ts:265: the uncaughtException listener calls bot.stop(), which
\* returns at once when the Bot is not running.
OnUncaughtException ==
    IF pollingRunning THEN BotStopRunning ELSE UNCHANGED botVars

\* An exception reaches the process level (main.ts:265).  With a listener
\* installed Node.js does not end the process; isDown and the outstanding
\* timers are as they were.
UncaughtException ==
    /\ serving
    /\ OnUncaughtException
    /\ crash' = IF pollingRunning THEN "stopped" ELSE crash
    /\ UNCHANGED << now, forced, isDown, timers, stopping, alerts, msg,
                    upBegun, upDone, downAt, starts, sinceStart, episode,
                    actedSince, lastCheck, resp >>
    /\ UNCHANGED envVars

\* sendDowntimeNotice for one incoming text message (main.ts:126-149).
\* Updates reach the middleware only while the Bot is polling.
Message ==
    /\ serving
    /\ polling
    /\ msg' = IF NoticeGate THEN Handled(1 - msg.seq, "notice", 1, 1)
               ELSE Handled(1 - msg.seq, "pass", 0, 1)
    /\ actedSince' = (actedSince \/ NoticeGate)
    /\ UNCHANGED << now, forced, isDown, timers, botVars, stopping, alerts,
                    upBegun, upDone, downAt, starts, sinceStart, episode,
                    lastCheck >>
    /\ UNCHANGED << resp, crash >>
    /\ UNCHANGED envVars

\* sendDowntimeNotice for a text message whose ctx.reply rejects
\* (main.ts:132-146): the .catch logs, and next() is called as usual.
MessageSendFails ==
    /\ serving
    /\ polling
    /\ NoticeGate
    /\ msg' = Handled(1 - msg.seq, "dropped", 1, 1)
    /\ UNCHANGED << now, forced, isDown, timers, botVars, stopping, alerts,
                    upBegun, upDone, downAt, starts, sinceStart, episode,
                    actedSince, lastCheck >>
    /\ UNCHANGED << resp, crash >>
    /\ UNCHANGED envVars

\* One tick of the clock.  A timer that is due fires before the next tick.
Tick ==
    /\ serving
    /\ now < MaxTime
    /\ \A i \in 1..Len(timers) : timers[i].due > now
    /\ now' = now + 1
    /\ UNCHANGED << forced, isDown, timers, botVars, stopping, alerts, msg,
                    upBegun, upDone, downAt, starts, sinceStart, episode,
                    actedSince, lastCheck >>
    /\ UNCHANGED << resp, crash >>
    /\ UNCHANGED envVars

\* ------------------------------------------- the endpoint's other answers
\* Everything but the endpoint's last response.
stateVars == << now, forced, isDown, timers, pollingRunning, setup,
                onStartPending, polling, stopping, alerts, msg, upBegun,
                upDone, downAt, starts, sinceStart, episode, actedSince,
                lastCheck, cfg, strict, serving, crash, db, wlast >>

\* processIncomingUpdate with a body whose `down` is not a boolean
\* (main.ts:199, 235): {ok:false}.
PostInvalid ==
    /\ serving
    /\ \E d \in DownValues :
          ~IsBoolean(d) /\ resp' = Answer(d, "notok")
    /\ UNCHANGED stateVars

\* processIncomingUpdate throws before it looks at `down`: request.req.json()
\* rejects a body that is not JSON (main.ts:196), and `json.down` on the
\* JSON value null is a TypeError (main.ts:199).  server.onError answers.
PostThrows ==
    /\ serving
    /\ \E b \in {"null", "malformed"} : resp' = Answer(b, OnError)
    /\ UNCHANGED stateVars

\* updateBlockState for one my_chat_member update of user u (main.ts:84-115).
\* Updates reach the handler only while the Bot is polling, one at a time.
\* The one updateOne call resolves, or it rejects; a call that rejects
\* because the connection broke may have been applied by the server.  An
\* error leaving the handler would reach the Bot's default error handler,
\* which stops the Bot.
MemberEvent ==
    /\ serving
    /\ polling
    /\ \E u \in 1..NumUsers, st \in Statuses,
          outcome \in {"resolved", "rejected", "rejectedApplied"} :
          LET raised == outcome # "resolved" /\ ~CatchSwallows
          IN  /\ db' = IF outcome = "rejected" THEN db
                       ELSE UpdateOne(db, u, NewStatus(st))
              /\ wlast' = [wlast EXCEPT ![u] =
                     [status |-> st,
                      result |-> IF outcome # "resolved" THEN "failed"
                                 ELSE IF db[u].exists THEN "matched"
                                 ELSE "nomatch",
                      attempts |-> 1,
                      raised |-> raised]]
              /\ pollingRunning' = (pollingRunning /\ ~raised)
              /\ polling' = (polling /\ ~raised)
    /\ UNCHANGED << now, forced, isDown, timers, setup, onStartPending,
                    stopping, alerts, msg, upBegun, upDone, downAt, starts,
                    sinceStart, episode, actedSince, lastCheck, cfg, strict,
                    serving, resp, crash >>

Next ==
    \/ ReportDown
    \/ ReportUpIdle
    \/ ReportUpBegin
    \/ ReportUpEnd
    \/ TimerFire
    \/ SetupDone
    \/ AlertSent
    \/ Message
    \/ Tick

Spec == Init /\ [][Next]_vars

\* The event loop runs every enabled continuation and timer, and the
\* network calls of a reliable transport return.
Fairness ==
    /\ WF_vars(TimerFire)
    /\ WF_vars(Tick)
    /\ WF_vars(ReportUpEnd)
    /\ WF_vars(SetupDone)
    /\ WF_vars(AlertSent)

LiveSpec == Spec /\ Fairness

\* The control endpoint with every kind of request body, and what its
\* requests set off.  Text messages do not touch what the endpoint reads or
\* writes and are left out.
NextEndpoint ==
    \/ ReportDown
    \/ ReportUpIdle
    \/ ReportUpBegin
    \/ ReportUpEnd
    \/ TimerFire
    \/ SetupDone
    \/ AlertSent
    \/ Tick
    \/ PostInvalid
    \/ PostThrows

EndpointSpec == Init /\ [][NextEndpoint]_vars

\* The service with a transport on which the notice can fail to be sent.
NextMsg ==
    \/ Next
    \/ MessageSendFails

MsgSpec == Init /\ [][NextMsg]_vars

\* The service with a transport on which the alert can fail to be sent.
NextAlert ==
    \/ Next
    \/ AlertFails

AlertSpec == Init /\ [][NextAlert]_vars

\* The control endpoint, its timers and the Bot, with exceptions reaching
\* the process level at any moment.
NextExc ==
    \/ ReportDown
    \/ ReportUpIdle
    \/ ReportUpBegin
    \/ ReportUpEnd
    \/ TimerFire
    \/ SetupDone
    \/ AlertSent
    \/ Tick
    \/ UncaughtException

ExcSpec == Init /\ [][NextExc]_vars

\* Startup of the service in forced downtime or not, over any collection.
InitWatcher ==
    /\ Loaded
    /\ cfg = "complete"
    /\ strict = FALSE
    /\ serving = TRUE
    /\ db \in Collections

\* The membership watcher of the running Bot.
NextWatcher ==
    \/ SetupDone
    \/ MemberEvent

WatcherSpec == InitWatcher /\ [][NextWatcher]_vars

\* The control endpoint in every environment the process can be started in.
NextCfg ==
    \/ ReportDown
    \/ ReportDownThrows
    \/ ReportDownNaN
    \/ ReportUpIdle
    \/ ReportUpBegin
    \/ ReportUpEnd
    \/ TimerFire
    \/ SetupDone
    \/ AlertSent
    \/ Tick

CfgSpec == InitCfg /\ [][NextCfg]_vars

TypeOK ==
    /\ now \in 0..MaxTime
    /\ forced \in BOOLEAN
    /\ isDown \in BOOLEAN
    /\ Len(timers) <= MaxTimers
    /\ pollingRunning \in BOOLEAN
    /\ setup \in {"none", "plain", "alert"}
    /\ onStartPending \in 0..MaxPending
    /\ polling \in BOOLEAN
    /\ stopping \in 0..MaxStops
    /\ alerts \in Nat
    /\ msg.out \in {"none", "notice", "pass", "dropped"}
    /\ (~pollingRunning => setup = "none" /\ ~polling)
    /\ cfg \in Environments
    /\ strict \in BOOLEAN
    /\ serving \in BOOLEAN
    /\ resp.body \in Bodies \cup {"none"}
    /\ resp.ans \in {"none", "ok", "notok", "error", "text500"}
    /\ crash \in {"no", "stopped", "reported", "reactivated"}
    /\ \A u \in 1..NumUsers :
          /\ db[u].hasBlocked \in BOOLEAN
          /\ wlast[u].status \in Statuses \cup {"none"}
          /\ wlast[u].result \in {"none", "matched", "nomatch", "failed"}

\* ------------------------------------------------------------- claims
\* A delayed check takes the handler from stopped to running in this step.
Activates == TimerFire /\ starts' = starts + 1

\* The delayed checks scheduled since the last down=false report was processed.
LiveTimers == {i \in 1..Len(timers) : ~timers[i].upSeen}

\* C1: a down=false report cancels every delayed check outstanding when it
\* is processed: a delayed check that activates the failover handler was
\* scheduled after the last processed down=false report.
C1_UpCancelsChecks ==
    [][Activates => ~Head(timers).upSeen]_vars

\* C2: at most one delayed check is outstanding among those scheduled by
\* down=true reports with no down=false report in between.
C2_OneTimer == Cardinality(LiveTimers) <= 1

\* C3 (as claimed): when the handler goes from stopped to running for the
\* second or a later time, exactly one alert was sent since the previous
\* such transition.  Stated for the delayed checks that no down=false
\* report precedes or overlaps, so that no stale or racing check is needed
\* to refute it.
C3_ExactlyOnePerTransition ==
    [][Activates /\ starts >= 1 /\ stopping = 0 /\ ~Head(timers).upSeen
         /\ Head(timers).first
       => sinceStart = 1]_vars

\* C3 (amended): alerts are per transition, not per report, and at most one
\* each: the alerts sent or under way never outnumber the transitions of
\* the handler from stopped to running made by delayed checks.
C3_AtMostOnePerTransition ==
    alerts + onStartPending + (IF setup = "alert" THEN 1 ELSE 0) <= starts

\* Two transitions, each with its alert, and a delayed check in between or
\* after that found the handler running and sent nothing.
C3_Witness ==
    /\ starts = 2
    /\ alerts = 2
    /\ lastCheck = "noop"

\* C4: a text message gets the downtime notice only when the status is
\* DOWN, never while UP or inside the grace delay (PENDING_DOWN).
C4_NoticeOnlyWhenDown ==
    [][Message /\ msg'.out = "notice" => Status = "DOWN"]_vars

\* C5: no delayed check starts the handler while a down=false request is
\* between its stop request and its write of isDown = false.
C5_UpAndCheckExclusive ==
    [][Activates => stopping = 0]_vars

\* C6: after a down=false report was answered, and until the next down=true
\* report, the status is UP and the handler is not running.
C6_UpAfterReportUp ==
    upDone => ~isDown /\ ~pollingRunning

\* C7, safety: a down=true report that leaves UP, with no down=false report
\* after it, activates the handler no earlier than the delay after it.
C7_NotBeforeDelay ==
    [][Activates /\ stopping = 0 => now >= downAt + DOWNTIME_DELAY]_vars

\* C7, liveness: with no down=false report following, the handler is
\* eventually activated.
C7_EventuallyActive ==
    (isDown /\ stopping = 0) ~> (pollingRunning \/ ~isDown \/ stopping > 0)

\* C7, the notice: every text message handled while the report stands gets
\* the downtime notice.
C7_NoticeWhileDown ==
    [][Message /\ isDown => msg'.out = "notice"]_vars

\* C7, the alert: an activation that no down=false report follows sends
\* its alert.
C7_AlertSent ==
    (setup = "alert" /\ stopping = 0) ~> (sinceStart >= 1 \/ ~isDown \/ stopping > 0)

\* C7: failover happens when the delay has elapsed, not before, sends its
\* alert, and then answers every text message with the notice.
C7_Failover ==
    /\ C7_NotBeforeDelay
    /\ C7_EventuallyActive
    /\ C7_AlertSent
    /\ C7_NoticeWhileDown

\* C8: from a settled UP, a down=true report followed inside the delay by a
\* down=false report, with no further report: the handler was not
\* activated, no alert and no notice were sent, and none is later.
C8_SelfRecovery ==
    episode = "recovered" => ~actedSince /\ ~pollingRunning

C10_ForcedIgnoresDown ==
    [][ForcedInEffect /\ ReportDown
       => UNCHANGED << timers, isDown, botVars, alerts >>]_vars

\* The last request had a JSON body without a boolean `down`.
InvalidDown == resp.body \in (DownValues \cup {"null"}) /\ ~IsBoolean(resp.body)

\* C11: a request whose parsed body has a missing or non-boolean `down` is
\* answered {ok:false}, and it changes nothing but the response.
C11_InvalidBodyRejected ==
    /\ [](InvalidDown => resp.ans = "notok")
    /\ [][InvalidDown' /\ resp' # resp => UNCHANGED stateVars]_vars

\* C12: every request with a boolean `down` is answered {ok:true}, and a
\* delayed check is scheduled in the step that produces the response to its
\* report, so neither its activation nor the alert can precede the response.
C12_BooleanAnswered ==
    /\ [](IsBoolean(resp.body) => resp.ans = "ok")
    /\ [][Len(timers') > Len(timers) => resp' = Answer("true", "ok")]_vars

\* C13: a request whose handler throws is answered with the generic error
\* JSON, the process keeps serving, the downtime state is unchanged, and a
\* request that follows is processed as usual.
C13_ErrorsIsolated ==
    /\ [](resp.body = "malformed" => resp.ans = "error")
    /\ [][PostThrows => serving' /\ UNCHANGED stateVars]_vars
    /\ [][resp.ans = "error" /\ ReportDown
          => resp'.ans = "ok" /\ Len(timers') = Len(timers) + 1]_vars

\* A malformed request was answered with the error JSON while a delayed
\* check was pending and the service is still up.
C13_Witness ==
    /\ resp = Answer("malformed", "error")
    /\ serving
    /\ isDown
    /\ Len(timers) = 1

\* C16: for every text message handled, one notice send is attempted if
\* the failover is active (status DOWN) at that moment and none otherwise;
\* next is called exactly once, also when the send fails, and no error
\* leaves the middleware.
C16_Middleware ==
    [][Message \/ MessageSendFails
       => /\ msg'.sends = (IF Status = "DOWN" THEN 1 ELSE 0)
          /\ msg'.nexts = 1
          /\ ~msg'.raised]_vars

\* C17: configuration is fail-fast: the process serves only in a complete
\* environment, and every served down=true report read a numeric delay.
C17_FailFast ==
    /\ (cfg # "complete" => ~serving)
    /\ (resp.body = "true" => DelayRead = "number")

\* C14: a user's hasBlocked is (status of the user's last event = "kicked")
\* whenever that event's write found the document and succeeded; each event
\* makes exactly one update call, which leaves the user's other fields and
\* every other user's document as they were.
C14_WatcherResult ==
    /\ [](\A u \in 1..NumUsers :
            wlast[u].result = "matched"
            => db[u].exists /\ db[u].hasBlocked = NewStatus(wlast[u].status))
    /\ [][\A u \in 1..NumUsers :
            MemberEvent /\ wlast'[u] # wlast[u] /\ wlast'[u].result = "matched"
            => /\ wlast'[u].attempts = 1
               /\ db'[u].other = db[u].other
               /\ \A v \in 1..NumUsers \ {u} : db'[v] = db[v]]_vars

\* One user went from blocked to unblocked by a matched write while the
\* other user's document, blocked, stayed as it was.
C14_Witness ==
    /\ wlast[1] = [status |-> "member", result |-> "matched", attempts |-> 1,
                   raised |-> FALSE]
    /\ db[1] = Doc(FALSE, "profile")
    /\ wlast[2].result = "matched"
    /\ db[2] = Doc(TRUE, "profile")

\* C15: an event whose update fails or matches no document ends without an
\* error leaving the handler, after one update call at most, creates no
\* document, and leaves the Bot handling later events.
C15_FailuresSwallowed ==
    [][\A u \in 1..NumUsers :
         MemberEvent /\ wlast'[u] # wlast[u]
           /\ wlast'[u].result \in {"failed", "nomatch"}
         => /\ ~wlast'[u].raised
            /\ wlast'[u].attempts <= 1
            /\ \A v \in 1..NumUsers : db'[v].exists = db[v].exists
            /\ polling']_vars

\* A failed update and an update that matched nothing have both been
\* handled, the second after the first, and the Bot is still polling.
C15_Witness ==
    /\ wlast[1].result = "failed"
    /\ wlast[2].result = "nomatch"
    /\ ~db[2].exists
    /\ polling

\* C18: the alert is fire-and-forget: when its send fails, the handler
\* that the delayed check activated is still running.
C18_AlertFireAndForget ==
    [][AlertFails /\ pollingRunning => pollingRunning']_vars

\* C19: with down=true reports only since the report that left UP, the
\* handler is activated exactly DOWNTIME_DELAY after that first report, and
\* it had not been activated before since that report.
C19_FirstReportWins ==
    [][Activates /\ stopping = 0
       => now = downAt + DOWNTIME_DELAY /\ ~actedSince]_vars

\* C20: an uncaught exception stops a running handler and leaves the
\* process serving with isDown and the timers untouched; a down=true report
\* after it is answered {ok:true} and schedules its check, and a delayed
\* check that then finds isDown true and the handler stopped activates it.
C20_ExceptionStopsHandler ==
    /\ [][UncaughtException
          => /\ ~pollingRunning'
             /\ ~polling'
             /\ serving'
             /\ UNCHANGED << isDown, timers >>]_vars
    /\ [][crash = "stopped" /\ ReportDown
          => /\ resp' = Answer("true", "ok")
             /\ Len(timers') = Len(timers) + 1]_vars
    /\ [][crash = "reported" /\ TimerFire /\ isDown /\ ~pollingRunning
          => pollingRunning' /\ setup' = "alert"]_vars
    /\ [](crash = "reactivated" => serving)

\* An exception stopped the running handler, a down=true report came with
\* no delayed check outstanding, its check activated the handler after the
\* delay, and the handler is polling again; no down=false report was made.
C20_Witness ==
    /\ crash = "reactivated"
    /\ polling
    /\ isDown
    /\ starts = 2
    /\ ~upBegun

====
